---- MODULE Spec2Model ----
(***************************************************************************)
(* PollingCoordinator of custom_components/bluetti_bt/coordinator.py.      *)
(*                                                                         *)
(* One poll cycle (_async_update_data) is a coroutine; every action below  *)
(* is the code that runs between two of its suspension points (connect,    *)
(* start_notify, write_gatt_char, wait_for, disconnect).  The notification *)
(* callback (_notification_handler) runs on the same event loop, between   *)
(* those segments, whenever the transport delivers a chunk.                *)
(*                                                                         *)
(* The command objects (response_size, is_valid_response,                  *)
(* is_exception_response, parse_response) and the device's parse belong to *)
(* the bluetti_mqtt package, which is not part of this repository: they    *)
(* are modelled from the Frame Codec contract of the specification, on a   *)
(* scaled-down frame (2 header bytes, payload, 1 checksum byte).           *)
(***************************************************************************)
EXTENDS Integers, Sequences, FiniteSets, TLC

VARIABLES
    \* ---- fields of PollingCoordinator (they outlive a cycle)
    notify_future,     \* self.notify_future: None or an asyncio future
    current_command,   \* self.current_command: 0 is None, else an index of polling_commands
    notify_response,   \* self.notify_response: the accumulated bytes
    bluetti_device,    \* self.bluetti_device is not None
    \* ---- locals of one _async_update_data call
    pc,                \* where the coroutine is suspended
    parsed_data,       \* the dict returned to the sensors: a set of [key, val]
    exit_kind,         \* what leaves the try statement while finally runs
    cycle_timer,       \* async_timeout.timeout(15): "off" or "armed"
    registered,        \* start_notify was called on this cycle's client
    \* ---- history of the current cycle, kept for the properties
    client,            \* BleakClient(device) was created
    disconnects,       \* number of client.disconnect() calls
    result,            \* "running", "None", "Snapshot" or "raised"
    begun,             \* commands whose request was begun and written, in order
    outcome,           \* how each command of the cycle ended: "-", "ok", "skipped",
                       \* "fault", "decode" or "cancelled"
    opened,            \* connect and start_notify both returned
    timed_out,         \* the cycle-level timeout fired
    replaced,          \* state of the slot the last request replaced
    ev,                \* the operation that made the last step
    data,              \* the chunk given to the last handler call
    late,              \* that chunk answers an earlier, abandoned command
    delivered,         \* the chunks handed over while the current slot was
                       \* unsettled, in delivery order (the two connection
                       \* markers apart, which settle the slot at once)
    decoded            \* what each command of the cycle decoded to

vars == <<notify_future, current_command, notify_response, bluetti_device, pc,
          parsed_data, exit_kind, cycle_timer, registered, client, disconnects,
          result, begun, outcome, opened, timed_out, replaced, ev, data, late,
          delivered, decoded>>

---------------------------------------------------------------------------
\* Bounds of the model.

\* Longest chunk one notification carries (the AT+ sequences apart).
MaxChunk == 2

\* Notifications that would grow the accumulator beyond this are not delivered.
MaxAcc == 5

---------------------------------------------------------------------------
\* Bytes and chunks.

Byte == {1, 2}

AT_NAME == <<65, 84, 43, 78, 65, 77, 69, 63, 13>>

AT_ADV == <<65, 84, 43, 65, 68, 86, 63, 13>>

SeqsUpTo(n) == UNION {[1..m -> Byte] : m \in 1..n}

Chunks == SeqsUpTo(MaxChunk) \cup {AT_NAME, AT_ADV}

---------------------------------------------------------------------------
\* The device's command catalog (bluetti_mqtt).

\* function code 1; an exception frame answers with function code + 1.
polling_commands ==
    << [size |-> 4, function_code |-> 1, fields |-> {"a", "b"}],
       [size |-> 5, function_code |-> 1, fields |-> {"b", "c"}],
       [size |-> 4, function_code |-> 1, fields |-> {"c", "d"}] >>

NumCommands == Len(polling_commands)

response_size(c) == polling_commands[c].size

RECURSIVE Sum(_)
Sum(s) == IF s = <<>> THEN 0 ELSE s[1] + Sum(Tail(s))

checksum(s) == (Sum(s) % 2) + 1

is_valid_response(c, r) ==
    IF Len(r) < 3 THEN FALSE
    ELSE r[Len(r)] = checksum(SubSeq(r, 1, Len(r) - 1))

is_exception_response(c, r) ==
    IF Len(r) < 2 THEN FALSE
    ELSE r[2] = polling_commands[c].function_code + 1

parse_response(c, r) == SubSeq(r, 3, Len(r) - 1)

parse(c, body) == {[key |-> f, val |-> body] : f \in polling_commands[c].fields}

Keys(d) == {e.key : e \in d}

---------------------------------------------------------------------------
\* asyncio futures.

NoError == [kind |-> "-", code |-> -1]

NoFuture == [state |-> "none", val |-> <<>>, err |-> NoError]

create_future == [state |-> "pending", val |-> <<>>, err |-> NoError]

set_result(fut, r) == [state |-> "result", val |-> r, err |-> NoError]

set_exception(fut, e) == [state |-> "exception", val |-> <<>>, err |-> e]

\* A wait that gives up without touching the future.
cancelNothing(fut) == fut

cancel(fut) ==
    IF fut.state = "pending"
    THEN [state |-> "cancelled", val |-> <<>>, err |-> NoError]
    ELSE fut

done(fut) == fut.state \in {"result", "exception", "cancelled"}

---------------------------------------------------------------------------
\* _notification_handler (lines 129-153).

\* "if not self.notify_future or self.notify_future.done(): return"
IgnoredNoDoneCheck(fut) == fut.state = "none"

Ignored(fut) == fut.state = "none" \/ done(fut)

\* 'data == b"AT+NAME?\r" or data == b"AT+ADV?\r"'
IsBadConnectionNameOnly(d) == d = AT_NAME

IsBadConnection(d) == d = AT_NAME \/ d = AT_ADV

BadConnectionError == [kind |-> "BadConnectionError", code |-> -1]

ParseError == [kind |-> "ParseError", code |-> -1]

\* ModbusError(msg): msg carries notify_response[2], the third byte
ModbusError(r) == [kind |-> "ModbusError", code |-> r[3]]

\* self.notify_response.extend(data)
extendReplacing(resp, d) == d

extend(resp, d) == resp \o d

\* len(self.notify_response) == self.current_command.response_size()
IsCompleteAtLeast(c, acc) == Len(acc) >= response_size(c)

IsComplete(c, acc) == Len(acc) = response_size(c)

\* The handler's effect on (notify_future, notify_response) for chunk d while
\* command c is the current one.  Building the ModbusError message reads
\* notify_response[2]: on a two-byte accumulator that is an IndexError, which
\* leaves the handler after the extend and before any set_exception.
notification_handler(fut, c, resp, d) ==
    IF Ignored(fut) THEN [fut |-> fut, resp |-> resp]
    ELSE IF IsBadConnection(d)
    THEN [fut |-> set_exception(fut, BadConnectionError), resp |-> resp]
    ELSE LET acc == extend(resp, d) IN
         IF IsComplete(c, acc)
         THEN IF is_valid_response(c, acc)
              THEN [fut |-> set_result(fut, acc), resp |-> acc]
              ELSE [fut |-> set_exception(fut, ParseError), resp |-> acc]
         ELSE IF is_exception_response(c, acc)
         THEN IF Len(acc) < 3
              THEN [fut |-> fut, resp |-> acc]
              ELSE [fut |-> set_exception(fut, ModbusError(acc)), resp |-> acc]
         ELSE [fut |-> fut, resp |-> acc]

\* The transport delivers chunk d to the registered callback; lt tells that d
\* belongs to the answer to an earlier command of the cycle that was given up,
\* which the handler has no way to see.  The result of a
\* resolved future is the bytearray notify_response itself, so a write to the
\* accumulator after set_result would show in the future's value too.
Notify(d, lt) ==
    /\ registered
    /\ pc \in {"subscribe", "write", "wait", "disconnect"}
    /\ \/ notify_future.state # "pending"
       \/ d \in {AT_NAME, AT_ADV}
       \/ Len(notify_response) + Len(d) <= MaxAcc
    /\ lt => /\ pc \in {"write", "wait"}
             /\ d \notin {AT_NAME, AT_ADV}
             /\ \E j \in 1..(current_command - 1) : outcome[j] = "skipped"
    /\ LET h == notification_handler(notify_future, current_command,
                                     notify_response, d) IN
        /\ notify_response' = h.resp
        /\ notify_future' =
              IF h.fut.state = "result" THEN [h.fut EXCEPT !.val = h.resp]
              ELSE h.fut
    /\ delivered' = IF notify_future.state = "pending" /\ ~IsBadConnection(d)
                    THEN delivered \o d
                    ELSE delivered
    /\ ev' = "notify"
    /\ data' = d
    /\ late' = lt
    /\ UNCHANGED <<current_command, bluetti_device, pc, parsed_data, exit_kind,
                   cycle_timer, registered, client, disconnects, result, begun,
                   outcome, opened, timed_out, replaced, decoded>>

---------------------------------------------------------------------------
\* _async_update_data (lines 47-127).

NoOutcome == [c \in 1..NumCommands |-> "-"]

Record(c, how) == [outcome EXCEPT ![c] = how]

\* parsed_data.update(parsed)
UpdateReplacing(d, parsed) == parsed

\* A merge that keeps the value a key already has.
UpdateKeepingFirst(d, parsed) ==
    d \cup {e \in parsed : e.key \notin Keys(d)}

Update(d, parsed) == {e \in d : e.key \notin Keys(parsed)} \cup parsed

\* Control reaches "finally: await client.disconnect()" (lines 123-124) with
\* exit waiting: "Snapshot" (line 127 follows), "None" (a return None of
\* lines 119 or 122 is under way) or "raise" (an exception is in flight).
FinallyUnlessNone(exit) ==
    IF exit = "None"
    THEN /\ pc' = "done"
         /\ result' = "None"
         /\ UNCHANGED <<exit_kind, disconnects>>
         /\ cycle_timer' = "off"
    ELSE /\ pc' = "disconnect"
         /\ exit_kind' = exit
         /\ disconnects' = disconnects + 1
         /\ cycle_timer' = "off"
         /\ UNCHANGED result

Finally(exit) ==
    /\ pc' = "disconnect"
    /\ exit_kind' = exit
    /\ disconnects' = disconnects + 1
    /\ cycle_timer' = "off"
    /\ UNCHANGED result

\* The handlers of the outer try (lines 117-122): TimeoutError and BleakError
\* return None, anything else keeps propagating.
OuterHandler(exc) ==
    IF exc \in {"TimeoutError", "BleakError"} THEN Finally("None")
    ELSE Finally("raise")

\* Lines 79-87: prepare the request for command c and call write_gatt_char.
\* old is the slot that self.notify_future held when line 80 replaces it.
BeginRequest(c, old) ==
    /\ current_command' = c
    /\ notify_future' = create_future
    /\ notify_response' = <<>>
    /\ delivered' = <<>>
    /\ begun' = Append(begun, c)
    /\ replaced' = old.state
    /\ pc' = "write"
    /\ UNCHANGED <<exit_kind, disconnects, cycle_timer, result>>

\* A loop that waits again for the command that just ended.
NextCommandWaitingAgain(fut) ==
    /\ pc' = "wait"
    /\ notify_future' = create_future
    /\ UNCHANGED <<current_command, notify_response, begun, replaced,
                   delivered, exit_kind, disconnects, cycle_timer, result>>

\* The for statement of line 76 takes its next command, or is exhausted and
\* control leaves both with statements for the finally clause.  fut is the
\* slot as the iteration that ended left it.
NextCommand(fut) ==
    IF current_command < NumCommands
    THEN BeginRequest(current_command + 1, fut)
    ELSE /\ Finally("Snapshot")
         /\ notify_future' = fut
         /\ UNCHANGED <<current_command, notify_response, begun, replaced,
                        delivered>>

\* The except clauses of the inner try (lines 105-116): each one logs, and the
\* for statement goes on.
InnerCatchesNoModbus(exc) ==
    exc \in {"TimeoutError", "ParseError", "BadConnectionError", "BleakError"}

InnerCatchesNoBleak(exc) ==
    exc \in {"TimeoutError", "ParseError", "ModbusError", "BadConnectionError"}

InnerCatches(exc) ==
    exc \in {"TimeoutError", "ParseError", "ModbusError", "BadConnectionError",
             "BleakError"}

\* Exception exc leaves the body of the inner try while command
\* current_command is in progress.
CommandRaises(exc, fut) ==
    IF InnerCatches(exc) THEN NextCommand(fut)
    ELSE /\ OuterHandler(exc)
         /\ notify_future' = fut
         /\ UNCHANGED <<current_command, notify_response, begun, replaced,
                        delivered>>

\* ParseError and ModbusError leave the session usable; BadConnectionError
\* and BleakError are faults of the connection.
FailureOf(kind) ==
    IF kind \in {"ParseError", "ModbusError", "TimeoutError"} THEN "skipped"
    ELSE "fault"

\* Lines 53-70: resolve the device, create the client and the empty dict,
\* arm the cycle timeout and call connect.  The scheduler calls this again
\* once the previous call has ended.
StartCycle ==
    /\ pc \in {"idle", "done"}
    /\ \E device_found \in BOOLEAN :
          IF device_found /\ bluetti_device
          THEN /\ client' = TRUE
               /\ pc' = "connect"
               /\ cycle_timer' = "armed"
               /\ result' = "running"
               /\ ev' = "start"
          ELSE /\ client' = FALSE
               /\ pc' = "done"
               /\ cycle_timer' = "off"
               /\ result' = "None"
               /\ ev' = "unavailable"
    /\ parsed_data' = {}
    /\ exit_kind' = "-"
    /\ registered' = FALSE
    /\ disconnects' = 0
    /\ begun' = <<>>
    /\ outcome' = NoOutcome
    /\ opened' = FALSE
    /\ timed_out' = FALSE
    /\ replaced' = "-"
    /\ decoded' = [c \in 1..NumCommands |-> {}]
    /\ UNCHANGED delivered
    /\ data' = <<>>
    /\ late' = FALSE
    /\ UNCHANGED <<notify_future, current_command, notify_response,
                   bluetti_device>>

\* connect returned: line 72 calls start_notify with the handler.
ConnectOk ==
    /\ pc = "connect"
    /\ pc' = "subscribe"
    /\ registered' = TRUE
    /\ ev' = "connect_ok"
    /\ UNCHANGED <<delivered, decoded>>
    /\ data' = <<>>
    /\ late' = FALSE
    /\ UNCHANGED <<notify_future, current_command, notify_response,
                   bluetti_device, parsed_data, exit_kind, cycle_timer, client,
                   disconnects, result, begun, outcome, opened, timed_out,
                   replaced>>

\* connect raised BleakError.
ConnectFail ==
    /\ pc = "connect"
    /\ OuterHandler("BleakError")
    /\ ev' = "connect_fail"
    /\ UNCHANGED <<delivered, decoded>>
    /\ data' = <<>>
    /\ late' = FALSE
    /\ UNCHANGED <<notify_future, current_command, notify_response,
                   bluetti_device, parsed_data, registered, client, begun,
                   outcome, opened, timed_out, replaced>>

\* start_notify returned: the for statement starts with the first command.
SubscribeOk ==
    /\ pc = "subscribe"
    /\ opened' = TRUE
    /\ IF NumCommands >= 1
       THEN BeginRequest(1, notify_future)
       ELSE /\ Finally("Snapshot")
            /\ UNCHANGED <<notify_future, current_command, notify_response,
                           begun, replaced, delivered>>
    /\ ev' = "subscribe_ok"
    /\ UNCHANGED decoded
    /\ data' = <<>>
    /\ late' = FALSE
    /\ UNCHANGED <<bluetti_device, parsed_data, registered, client, outcome,
                   timed_out>>

\* start_notify raised BleakError.
SubscribeFail ==
    /\ pc = "subscribe"
    /\ OuterHandler("BleakError")
    /\ ev' = "subscribe_fail"
    /\ UNCHANGED <<delivered, decoded>>
    /\ data' = <<>>
    /\ late' = FALSE
    /\ UNCHANGED <<notify_future, current_command, notify_response,
                   bluetti_device, parsed_data, registered, client, begun,
                   outcome, opened, timed_out, replaced>>

\* write_gatt_char returned: line 90 waits for the slot.
WriteOk ==
    /\ pc = "write"
    /\ pc' = "wait"
    /\ ev' = "write_ok"
    /\ UNCHANGED <<delivered, decoded>>
    /\ data' = <<>>
    /\ late' = FALSE
    /\ UNCHANGED <<notify_future, current_command, notify_response,
                   bluetti_device, parsed_data, exit_kind, cycle_timer,
                   registered, client, disconnects, result, begun, outcome,
                   opened, timed_out, replaced>>

\* write_gatt_char raised BleakError.
WriteFail ==
    /\ pc = "write"
    /\ CommandRaises("BleakError", notify_future)
    /\ outcome' = Record(current_command, FailureOf("BleakError"))
    /\ ev' = "write_fail"
    /\ UNCHANGED decoded
    /\ data' = <<>>
    /\ late' = FALSE
    /\ UNCHANGED <<bluetti_device, parsed_data, registered, client, opened,
                   timed_out>>

\* wait_for returned the slot's result and lines 95-103 decode and merge it.
Response ==
    /\ pc = "wait"
    /\ notify_future.state = "result"
    /\ parsed_data' =
          Update(parsed_data,
                 parse(current_command,
                       parse_response(current_command, notify_future.val)))
    /\ NextCommand(notify_future)
    /\ outcome' = Record(current_command, "ok")
    /\ ev' = "response"
    /\ decoded' = [decoded EXCEPT ![current_command] =
                       parse(current_command,
                             parse_response(current_command,
                                            notify_future.val))]
    /\ data' = <<>>
    /\ late' = FALSE
    /\ UNCHANGED <<bluetti_device, registered, client, opened, timed_out>>

\* wait_for returned the slot's result and decoding it raised an exception
\* that no except clause names (a field parser rejecting a value).
DecodeFails ==
    /\ pc = "wait"
    /\ notify_future.state = "result"
    /\ CommandRaises("ValueError", notify_future)
    /\ outcome' = Record(current_command, "decode")
    /\ ev' = "decode_fails"
    /\ UNCHANGED decoded
    /\ data' = <<>>
    /\ late' = FALSE
    /\ UNCHANGED <<bluetti_device, parsed_data, registered, client, opened,
                   timed_out>>

\* wait_for raised the exception the handler settled the slot with.
CommandFails ==
    /\ pc = "wait"
    /\ notify_future.state = "exception"
    /\ CommandRaises(notify_future.err.kind, notify_future)
    /\ outcome' = Record(current_command, FailureOf(notify_future.err.kind))
    /\ ev' = "command_fails"
    /\ UNCHANGED decoded
    /\ data' = <<>>
    /\ late' = FALSE
    /\ UNCHANGED <<bluetti_device, parsed_data, registered, client, opened,
                   timed_out>>

\* RESPONSE_TIMEOUT elapsed with the slot unsettled: wait_for cancels the
\* future it waited for and raises TimeoutError.
ResponseTimeout ==
    /\ pc = "wait"
    /\ notify_future.state = "pending"
    /\ CommandRaises("TimeoutError", cancel(notify_future))
    /\ outcome' = Record(current_command, FailureOf("TimeoutError"))
    /\ ev' = "response_timeout"
    /\ UNCHANGED decoded
    /\ data' = <<>>
    /\ late' = FALSE
    /\ UNCHANGED <<bluetti_device, parsed_data, registered, client, opened,
                   timed_out>>

\* The 15 s of line 69 elapsed: the task is cancelled where it is suspended
\* (wait_for cancels the future it waits for), and leaving the with statement
\* turns the cancellation into TimeoutError for line 117.
CycleTimeout ==
    /\ pc \in {"connect", "subscribe", "write", "wait"}
    /\ cycle_timer = "armed"
    /\ OuterHandler("TimeoutError")
    /\ notify_future' = IF pc = "wait" THEN cancel(notify_future)
                        ELSE notify_future
    /\ outcome' = IF pc \in {"write", "wait"}
                  THEN Record(current_command, "cancelled") ELSE outcome
    /\ timed_out' = TRUE
    /\ ev' = "cycle_timeout"
    /\ UNCHANGED <<delivered, decoded>>
    /\ data' = <<>>
    /\ late' = FALSE
    /\ UNCHANGED <<current_command, notify_response, bluetti_device,
                   parsed_data, registered, client, begun, opened, replaced>>

\* disconnect returned: the pending return or exception takes effect.
DisconnectOk ==
    /\ pc = "disconnect"
    /\ pc' = "done"
    /\ result' = IF exit_kind = "raise" THEN "raised" ELSE exit_kind
    /\ registered' = FALSE
    /\ ev' = "disconnect_ok"
    /\ UNCHANGED <<delivered, decoded>>
    /\ data' = <<>>
    /\ late' = FALSE
    /\ UNCHANGED <<notify_future, current_command, notify_response,
                   bluetti_device, parsed_data, exit_kind, cycle_timer, client,
                   disconnects, begun, outcome, opened, timed_out, replaced>>

\* disconnect raised BleakError inside the finally clause: it replaces
\* whatever was leaving the try statement.
DisconnectFail ==
    /\ pc = "disconnect"
    /\ pc' = "done"
    /\ result' = "raised"
    /\ registered' = FALSE
    /\ ev' = "disconnect_fail"
    /\ UNCHANGED <<delivered, decoded>>
    /\ data' = <<>>
    /\ late' = FALSE
    /\ UNCHANGED <<notify_future, current_command, notify_response,
                   bluetti_device, parsed_data, exit_kind, cycle_timer, client,
                   disconnects, begun, outcome, opened, timed_out, replaced>>

---------------------------------------------------------------------------

\* __init__ (lines 41-45); build_device may not know the device name.
Init ==
    /\ notify_future = NoFuture
    /\ current_command = 0
    /\ notify_response = <<>>
    /\ bluetti_device \in BOOLEAN
    /\ pc = "idle"
    /\ parsed_data = {}
    /\ exit_kind = "-"
    /\ cycle_timer = "off"
    /\ registered = FALSE
    /\ client = FALSE
    /\ disconnects = 0
    /\ result = "running"
    /\ begun = <<>>
    /\ outcome = NoOutcome
    /\ opened = FALSE
    /\ timed_out = FALSE
    /\ replaced = "-"
    /\ ev = "init"
    /\ data = <<>>
    /\ late = FALSE
    /\ delivered = <<>>
    /\ decoded = [c \in 1..NumCommands |-> {}]

Next ==
    \/ StartCycle
    \/ ConnectOk
    \/ ConnectFail
    \/ SubscribeOk
    \/ SubscribeFail
    \/ WriteOk
    \/ WriteFail
    \/ Response
    \/ DecodeFails
    \/ CommandFails
    \/ ResponseTimeout
    \/ CycleTimeout
    \/ DisconnectOk
    \/ DisconnectFail
    \/ \E d \in Chunks : Notify(d, FALSE)

Spec == Init /\ [][Next]_vars

\* The same program with the provenance of the chunks told apart: a chunk may
\* also be a late part of the answer to a command that was given up.
LateNotify == \E d \in Chunks : Notify(d, TRUE)

NextLate == Next \/ LateNotify

SpecLate == Init /\ [][NextLate]_vars

\* The steps of the coroutine of one cycle: each is the return, the failure or
\* the timeout of the call the coroutine is suspended in.
CoroutineStep ==
    \/ ConnectOk \/ ConnectFail
    \/ SubscribeOk \/ SubscribeFail
    \/ WriteOk \/ WriteFail
    \/ Response \/ DecodeFails \/ CommandFails \/ ResponseTimeout
    \/ CycleTimeout
    \/ DisconnectOk \/ DisconnectFail

\* The program on an event loop whose timers fire and whose transport calls
\* all return or fail: a suspended coroutine is resumed in the end.
FairSpec == Init /\ [][Next]_vars /\ WF_vars(CoroutineStep)

---------------------------------------------------------------------------
\* Properties.

Recoverable == {"TimeoutError", "ParseError", "ModbusError"}

FieldsOf(c) == polling_commands[c].fields

Succeeded == {c \in 1..NumCommands : outcome[c] = "ok"}

Failed == {c \in 1..NumCommands :
              outcome[c] \in {"skipped", "fault"}}

\* C1: a cycle that creates a client calls disconnect exactly once before it
\* ends, whatever path it takes: never twice while it runs, and once when it
\* has ended.
C1_DisconnectExactlyOnce ==
    /\ disconnects <= 1
    /\ (pc = "done" /\ client) => disconnects = 1
    /\ (pc = "disconnect") => disconnects = 1

\* C1 witness: a cycle whose cycle-level timeout fired during the commands has
\* ended with its single disconnect.
C1_Witness ==
    /\ pc = "done"
    /\ client
    /\ timed_out
    /\ begun # <<>>
    /\ disconnects = 1

\* C2: no invocation of the cycle ends by propagating an exception.
C2_NeverRaises == result # "raised"

\* C3: once command k failed with a fault of the connection, no request for
\* a later command is begun in that cycle.
C3_FaultStopsLoop ==
    \A k \in 1..NumCommands :
        outcome[k] = "fault" => \A i \in 1..Len(begun) : begun[i] <= k

\* C4 as claimed: a cycle whose connect and subscribe succeeded never returns
\* None.
C4_NeverNoneOnceOpen == (pc = "done" /\ opened) => result # "None"

\* C4 amended: a cycle whose connect and subscribe succeeded returns None only
\* when the cycle-level timeout fired; failing or timed-out commands alone
\* never make it return None.
C4_NoneOnlyByCycleTimeout ==
    (pc = "done" /\ opened /\ result = "None") => timed_out

\* C4 witness: after a command that timed out and one that lost the
\* connection, the cycle returned its Snapshot.
C4_Witness ==
    /\ pc = "done"
    /\ opened
    /\ ~timed_out
    /\ result = "Snapshot"
    /\ outcome[1] = "skipped"
    /\ outcome[2] = "fault"

\* C5: the slot a request replaces is never an unsettled one.
C5_ReplacedSlotSettled == replaced # "pending"

\* C6: a handler call on a settled slot changes neither the slot (its
\* outcome, its value) nor the accumulator.
C6_SettledSlotImmutable ==
    [][(ev' = "notify" /\ done(notify_future))
          => (notify_future' = notify_future
              /\ notify_response' = notify_response)]_vars

\* C6 witness: a bad-connection sequence was delivered and the slot is still
\* resolved with its value.
C6_Witness ==
    /\ ev = "notify"
    /\ data = AT_NAME
    /\ notify_future.state = "result"
    /\ notify_future.val = notify_response

\* C7: the accumulator is never longer than the active command's expected
\* response.
C7_AccumulatorBounded ==
    current_command # 0
        => Len(notify_response) <= response_size(current_command)

\* C8: a bad-connection sequence delivered to a pending slot settles it failed
\* with the bad-connection error in that call and is not appended.
C8_BadConnectionSettles ==
    [][(ev' = "notify" /\ data' \in {AT_NAME, AT_ADV}
            /\ notify_future.state = "pending")
          => (notify_future' = set_exception(notify_future, BadConnectionError)
              /\ notify_response' = notify_response)]_vars

\* C8 witness: the second sequence arrived on a partial response.
C8_Witness ==
    /\ ev = "notify"
    /\ data = AT_ADV
    /\ notify_future.err = BadConnectionError
    /\ Len(notify_response) > 0

\* The exception wait_for is about to raise for the slot, if a step of the
\* waiting cycle raises one.
Raised ==
    IF notify_future.state = "exception" THEN notify_future.err.kind
    ELSE "TimeoutError"

\* C9: a response timeout, checksum failure or exception frame on a command
\* that is not the last one begins and writes the next command's request in
\* the same step, with the session still open.
C9_RecoverableContinues ==
    [][(ev' \in {"response_timeout", "command_fails"}
            /\ Raised \in Recoverable
            /\ current_command < NumCommands)
          => (/\ current_command' = current_command + 1
              /\ begun' = Append(begun, current_command + 1)
              /\ notify_future' = create_future
              /\ notify_response' = <<>>
              /\ pc' = "write"
              /\ disconnects' = 0)]_vars

\* C9 witness: the second command was skipped after the first one had been,
\* and the third request is written.
C9_Witness ==
    /\ ev \in {"response_timeout", "command_fails"}
    /\ outcome[1] = "skipped"
    /\ outcome[2] = "skipped"
    /\ begun = <<1, 2, 3>>
    /\ pc = "write"

\* C10 as claimed: when a command failed, the value the cycle returns is a
\* Snapshot holding the fields of every command that succeeded.
C10_FailureKeepsSnapshot ==
    (pc = "done" /\ result \in {"None", "Snapshot"} /\ Failed # {})
        => (result = "Snapshot"
            /\ \A c \in Succeeded : FieldsOf(c) \subseteq Keys(parsed_data))

\* C10 amended: the dict keeps the fields of every command that succeeded
\* whatever happens to later commands, holds only fields decoded from a
\* complete response with a valid checksum, and is what the cycle returns
\* unless the cycle-level timeout fired.
C10_MergedFieldsKept ==
    /\ \A c \in Succeeded : FieldsOf(c) \subseteq Keys(parsed_data)
    /\ \A e \in parsed_data :
          \E c \in Succeeded :
              /\ e.key \in FieldsOf(c)
              /\ \E r \in [1..response_size(c) -> Byte] :
                    /\ is_valid_response(c, r)
                    /\ e.val = parse_response(c, r)
    /\ (pc = "done" /\ Failed # {} /\ result = "None") => timed_out

\* C10 witness: the first command succeeded, the second timed out, and the
\* cycle returned the first one's fields.
C10_Witness ==
    /\ pc = "done"
    /\ result = "Snapshot"
    /\ outcome[1] = "ok"
    /\ outcome[2] = "skipped"
    /\ begun = <<1, 2, 3>>
    /\ Keys(parsed_data) = FieldsOf(1)

\* C11: a cycle in which no session was established (no device handle, no
\* device model, connect or subscribe failed, or the cycle-level timeout fired
\* before subscribe completed) returns None and writes no command request; with
\* no handle or no model it calls neither connect nor disconnect.
C11_NoSessionReturnsNone ==
    (pc = "done" /\ ~opened)
        => /\ result = "None"
           /\ begun = <<>>
           /\ ~client => disconnects = 0

\* C12: when the wait for a command's response times out, the timeout settles
\* nothing: the slot of that command is left unsettled (so a chunk that arrives
\* before the next request begins can still be accumulated and settle it).
C12_TimeoutLeavesSlot ==
    (ev = "response_timeout")
        => IF pc = "disconnect" THEN notify_future.state = "pending"
           ELSE replaced = "pending"

\* C12 amended: the wait that times out cancels the slot, and a chunk that
\* arrives for the cancelled slot before the next request begins is ignored:
\* it changes neither the slot nor the accumulator.
C12_TimeoutCancelsSlot ==
    [][ /\ (ev' = "response_timeout")
            => IF pc' = "disconnect" THEN notify_future'.state = "cancelled"
               ELSE replaced' = "cancelled"
        /\ (ev' = "notify" /\ notify_future.state = "cancelled")
            => UNCHANGED <<notify_future, notify_response>> ]_vars

\* C12 witness: the last command's wait timed out on a partial response, and
\* the chunk that would have completed a valid frame arrived afterwards, before
\* the disconnect returned, and was ignored.
C12_Witness ==
    /\ ev = "notify"
    /\ pc = "disconnect"
    /\ ~timed_out
    /\ notify_future.state = "cancelled"
    /\ notify_response # <<>>
    /\ Len(notify_response \o data) = response_size(current_command)
    /\ is_valid_response(current_command, notify_response \o data)

\* C13: a command that was given up never corrupts the next request: every
\* request begins with an empty accumulator and an unset slot, and a chunk of
\* the earlier command's answer that is delivered late, after the next request
\* has begun, is neither appended to the accumulator nor settles the slot.
C13_LateBytesKeptOut ==
    [][ /\ (begun' # begun)
            => (notify_response' = <<>> /\ notify_future' = create_future)
        /\ (ev' = "notify" /\ late')
            => UNCHANGED <<notify_response, notify_future>> ]_vars

\* C14: the slot becomes resolved only in a handler call after which the
\* accumulator has exactly the expected length and a valid checksum, and the
\* resolved value is the concatenation, in delivery order, of the chunks
\* delivered since the request began; a call that reaches the expected length
\* with an invalid checksum settles the slot with a parse error, whether or not
\* the accumulator looks like an exception frame.
C14_ResolvedOnlyWhenComplete ==
    [][ /\ (notify_future'.state = "result" /\ notify_future.state # "result")
            => /\ ev' = "notify"
               /\ Len(notify_response') = response_size(current_command)
               /\ is_valid_response(current_command, notify_response')
               /\ notify_future'.val = delivered'
        /\ ( /\ ev' = "notify"
             /\ notify_future.state = "pending"
             /\ ~IsBadConnection(data')
             /\ Len(notify_response \o data') = response_size(current_command)
             /\ ~is_valid_response(current_command, notify_response \o data') )
            => notify_future' = set_exception(notify_future, ParseError) ]_vars

\* C14 witness: a handler call has resolved the slot with a response that came
\* in more than one chunk.
C14_Witness ==
    /\ ev = "notify"
    /\ pc = "wait"
    /\ notify_future.state = "result"
    /\ Len(data) < Len(notify_future.val)
    /\ notify_future.val = delivered

\* The chunks delivered to the current request so far hold no connection
\* marker, and the request is still being served.
InResponse ==
    /\ pc \in {"write", "wait"}
    /\ notify_future.err # BadConnectionError

\* No part of the delivered bytes that is shorter than the expected length
\* has the shape of an exception frame.
NoExceptionPrefix ==
    \A n \in 1..Len(delivered) :
        n < response_size(current_command)
            => ~is_exception_response(current_command, SubSeq(delivered, 1, n))

\* C15: for a pending request and a byte sequence of the expected length with
\* a valid checksum, every split into non-empty chunks gives the same outcome:
\* the slot is not settled before the last chunk and is resolved with the whole
\* sequence after it.
C15_SplitIndependent ==
    InResponse
        => /\ Len(delivered) < response_size(current_command)
                => notify_future.state = "pending"
           /\ ( /\ Len(delivered) = response_size(current_command)
                /\ is_valid_response(current_command, delivered) )
                => notify_future = set_result(create_future, delivered)

\* C15 amended: the same, for the sequences no proper prefix of which has the
\* shape of an exception frame.
C15_SplitIndependentUnlessException ==
    (InResponse /\ NoExceptionPrefix)
        => /\ Len(delivered) < response_size(current_command)
                => (notify_future.state = "pending"
                    /\ notify_response = delivered)
           /\ ( /\ Len(delivered) = response_size(current_command)
                /\ is_valid_response(current_command, delivered) )
                => notify_future = set_result(create_future, delivered)

\* C15 witness: a valid response of the longest command, delivered one and two
\* bytes at a time and ending with a single byte, has resolved the slot.
C15_Witness ==
    /\ InResponse
    /\ NoExceptionPrefix
    /\ ev = "notify"
    /\ current_command = 2
    /\ Len(data) = 1
    /\ Len(delivered) = response_size(current_command)
    /\ notify_future = set_result(create_future, delivered)

\* C16: a handler call that appends a chunk to a pending request and leaves an
\* accumulator that has not the expected length and has the shape of an
\* exception frame settles the slot, in that same call, as failed with a
\* protocol-exception error, at every length at which the shape can match.
C16_ExceptionFrameSettles ==
    [][ ( /\ ev' = "notify"
          /\ notify_future.state = "pending"
          /\ ~IsBadConnection(data')
          /\ Len(notify_response \o data') # response_size(current_command)
          /\ is_exception_response(current_command,
                                   notify_response \o data') )
        => /\ notify_future'.state = "exception"
           /\ notify_future'.err.kind = "ModbusError" ]_vars

\* C17: a notification delivered while no request of the current cycle is
\* pending changes no correlator state, in the first cycle and in every later
\* one, however the previous cycle ended.  The callback can run with no request
\* of the cycle begun only while start_notify is awaited: between the end of
\* one wait and the next request the coroutine is never suspended.
C17_IdleNotificationIgnored ==
    [][ (ev' = "notify" /\ pc = "subscribe")
        => UNCHANGED <<notify_future, notify_response, current_command>> ]_vars

\* C18: every poll cycle eventually ends, when timers fire and every transport
\* call returns or fails: the coroutine is again and again outside a cycle, and
\* a response that never arrives, stops half way or overshoots the expected
\* length does not keep it inside one.
C18_CycleEnds == []<>(pc \in {"idle", "done"})

\* C18 witness: the response of the last command overshot the expected length,
\* its wait was given up by the per-command timeout, and the cycle has ended.
C18_Witness ==
    /\ pc = "done"
    /\ ~timed_out
    /\ begun = <<1, 2, 3>>
    /\ notify_future.state = "cancelled"
    /\ Len(notify_response) > response_size(current_command)

\* The last command, in catalog order, that succeeded in this cycle and
\* produces key k (0 when there is none).
LastProducer(k) ==
    LET producers == {c \in Succeeded : k \in FieldsOf(c)} IN
    IF producers = {} THEN 0
    ELSE CHOOSE c \in producers : \A o \in producers : o <= c

\* C19: within a cycle the commands are requested in catalog order, each at
\* most once, and the merge is last-write-wins: in the returned dict every key
\* has one value, the one decoded by the last command, in catalog order, that
\* succeeded in this cycle and produced that key.
C19_CatalogOrderLastWins ==
    /\ \A i \in 1..Len(begun) : begun[i] = i
    /\ (pc = "done" /\ result = "Snapshot")
        => \A e \in parsed_data :
              /\ LastProducer(e.key) # 0
              /\ e \in decoded[LastProducer(e.key)]
              /\ \A o \in parsed_data : o.key = e.key => o = e

\* C19 witness: all three commands succeeded, so that two keys were decoded
\* twice, by commands whose bodies differ.
C19_Witness ==
    /\ pc = "done"
    /\ result = "Snapshot"
    /\ Succeeded = 1..NumCommands
    /\ \E k \in Keys(parsed_data) :
          \E c \in Succeeded : /\ c # LastProducer(k)
                                /\ k \in FieldsOf(c)
                                /\ \E e \in decoded[c] :
                                      e.key = k /\ e \notin parsed_data

====
